---------------------------- MODULE Spec2Model ----------------------------
(***************************************************************************)
(* Model of src/src/meeting_notes_converter.py: the markdown parser        *)
(* (parse_markdown, _extract_mentions), the request builder                *)
(* (MeetingNotesConverter.populate_document), document creation            *)
(* (MeetingNotesConverter.create_document) and the orchestration helper    *)
(* convert_notes_to_doc.                                                   *)
(*                                                                         *)
(* A Python str is a sequence of one-character strings.  Offsets stored in *)
(* the model (mention spans, request indexes) are the Python values        *)
(* (0-based, half-open); sequence positions are 1-based.                   *)
(***************************************************************************)
EXTENDS Integers, Sequences, FiniteSets, TLC

(***************************************************************************)
(* Bounds of the model.                                                    *)
(***************************************************************************)
\* longest markdown text enumerated exhaustively over ShortAlphabet
MaxLen == 4
\* longest run of '#' in an enumerated structured line
MaxHashes == 7
\* widest leading whitespace of an enumerated structured line
MaxLead == 4
\* widest whitespace between marker and content of a structured line
MaxGap == 1
\* longest paragraph sequence handed directly to populate_document
MaxParas == 2
\* deepest indent_level of a paragraph handed directly to populate_document
MaxIndentLevel == 1

(***************************************************************************)
(* Program constants.                                                      *)
(***************************************************************************)
INDENT_WIDTH_PT == 18
\* the upper repetition bound of #{1,6} in the heading pattern
HeadingMaxHashes == 6
\* the clamp of min(len(hashes), 3)
HeadingMaxLevel == 3
\* the divisor of len(indent) // 2
IndentDivisor == 2
\* the slice offset of remainder[3:]
CheckboxTokenLen == 3

(***************************************************************************)
(* State.                                                                  *)
(***************************************************************************)
VARIABLES
    markdown_text,     \* the argument of parse_markdown / convert_notes_to_doc
    paragraphs,        \* the List[ParagraphSpec] handed to populate_document
    pc,                \* the statement the running call is at
    document_id,       \* the document_id the run works on, "none" before
    requests,          \* populate_document's local list of requests
    cursor,            \* populate_document's local cursor
    paragraph_ranges,  \* populate_document's local list of (start, end)
    remote,            \* the documents the service holds, by document id
    calls,             \* the calls the service has received, in order
    error,             \* the exception that left the call, NoError if none
    returned           \* what convert_notes_to_doc returned, "none" before

vars ==
    <<markdown_text, paragraphs, pc, document_id, requests, cursor,
      paragraph_ranges, remote, calls, error, returned>>

(***************************************************************************)
(* Characters.                                                             *)
(***************************************************************************)
UpperLetters ==
    <<"A", "B", "C", "D", "E", "F", "G", "H", "I", "J", "K", "L", "M",
      "N", "O", "P", "Q", "R", "S", "T", "U", "V", "W", "X", "Y", "Z">>

LowerLetters ==
    <<"a", "b", "c", "d", "e", "f", "g", "h", "i", "j", "k", "l", "m",
      "n", "o", "p", "q", "r", "s", "t", "u", "v", "w", "x", "y", "z">>

Digits == {"0", "1", "2", "3", "4", "5", "6", "7", "8", "9"}

Range(f) == {f[i] : i \in DOMAIN f}

\* what str.isspace and the pattern class \s accept, among the characters
\* that can remain in a line after splitlines
Whitespace == {" ", "\t"}

\* the boundaries str.splitlines splits on, among the characters used
LineBreaks == {"\n", "\r"}

\* the pattern class \w
WordChars == Range(UpperLetters) \cup Range(LowerLetters) \cup Digits \cup {"_"}

Min(a, b) == IF a <= b THEN a ELSE b

SetMax(S) == CHOOSE x \in S : \A y \in S : y <= x

SetMin(S) == CHOOSE x \in S : \A y \in S : x <= y

\* str.lower, one character
lowerChar(c) ==
    IF \E i \in 1..26 : UpperLetters[i] = c
    THEN LowerLetters[CHOOSE i \in 1..26 : UpperLetters[i] = c]
    ELSE c

\* str.lower
lower(s) == [i \in 1..Len(s) |-> lowerChar(s[i])]

\* str.startswith(prefix)
startswith(s, prefix) ==
    /\ Len(prefix) <= Len(s)
    /\ SubSeq(s, 1, Len(prefix)) = prefix

\* str.rstrip()
rstrip(s) ==
    LET keep == {i \in 1..Len(s) : s[i] \notin Whitespace}
    IN  IF keep = {} THEN <<>> ELSE SubSeq(s, 1, SetMax(keep))

\* str.lstrip()
lstrip(s) ==
    LET keep == {i \in 1..Len(s) : s[i] \notin Whitespace}
    IN  IF keep = {} THEN <<>> ELSE SubSeq(s, SetMin(keep), Len(s))

\* str.strip()
strip(s) == rstrip(lstrip(s))

\* the number of leading characters of s that belong to class: what a greedy
\* class* consumes at the start of s
LeadingRun(s, class) ==
    LET stop == {i \in 1..Len(s) : s[i] \notin class}
    IN  IF stop = {} THEN Len(s) ELSE SetMin(stop) - 1

\* str.splitlines(): a "\r\n" pair is one boundary, and a text that ends with
\* a boundary has no empty last line
RECURSIVE SplitFrom(_, _, _)
SplitFrom(s, i, cur) ==
    IF i > Len(s)
    THEN IF cur = <<>> /\ (Len(s) = 0 \/ s[Len(s)] \in LineBreaks)
         THEN <<>> ELSE <<cur>>
    ELSE IF s[i] = "\r" /\ i < Len(s) /\ s[i + 1] = "\n"
    THEN <<cur>> \o SplitFrom(s, i + 2, <<>>)
    ELSE IF s[i] \in LineBreaks
    THEN <<cur>> \o SplitFrom(s, i + 1, <<>>)
    ELSE SplitFrom(s, i + 1, Append(cur, s[i]))

splitlines(s) == SplitFrom(s, 1, <<>>)

(***************************************************************************)
(* The parser.                                                             *)
(***************************************************************************)
NoMatch == [matched |-> FALSE]

\* MENTION_PATTERN.finditer(text): scan left to right; at an '@' followed by
\* a word character the match runs to the end of the word run, and the scan
\* resumes after the match
RECURSIVE MentionsFrom(_, _)
MentionsFrom(text, i) ==
    IF i > Len(text) THEN <<>>
    ELSE IF text[i] = "@" /\ i < Len(text) /\ text[i + 1] \in WordChars
    THEN LET run == LeadingRun(SubSeq(text, i + 1, Len(text)), WordChars)
         IN  <<(<<i - 1, i + run>>)>> \o MentionsFrom(text, i + run + 1)
    ELSE MentionsFrom(text, i + 1)

\* the spans of the names alone, without their '@'
extract_mentions_names(text) ==
    [k \in 1..Len(MentionsFrom(text, 1)) |->
        <<MentionsFrom(text, 1)[k][1] + 1, MentionsFrom(text, 1)[k][2]>>]

extract_mentions(text) == MentionsFrom(text, 1)

\* the heading pattern with an unbounded run of '#': ^(#+)\s+(.*)
heading_match_any_depth(line) ==
    LET h == LeadingRun(line, {"#"})
    IN  IF h >= 1 /\ h < Len(line) /\ line[h + 1] \in Whitespace
        THEN LET rest == SubSeq(line, h + 1, Len(line))
                 ws   == LeadingRun(rest, Whitespace)
             IN  [matched |-> TRUE,
                  hashes  |-> h,
                  title   |-> SubSeq(rest, ws + 1, Len(rest))]
        ELSE NoMatch

\* re.match(r"^(#{1,6})\s+(.*)", line): the groups (hashes, title).  #{1,6}
\* is greedy and backtracks: it may keep any k of the leading '#', 1 <= k <=
\* 6, provided the character after them is whitespace.
heading_match(line) ==
    LET h  == LeadingRun(line, {"#"})
        ks == {k \in 1..Min(h, HeadingMaxHashes) :
                  k < Len(line) /\ line[k + 1] \in Whitespace}
    IN  IF ks = {} THEN NoMatch
        ELSE LET k    == SetMax(ks)
                 rest == SubSeq(line, k + 1, Len(line))
                 ws   == LeadingRun(rest, Whitespace)
             IN  [matched |-> TRUE,
                  hashes  |-> k,
                  title   |-> SubSeq(rest, ws + 1, Len(rest))]

\* re.match(r"^(\s*)([-*])\s+(.*)", line): the groups (indent, remainder)
bullet_match(line) ==
    LET ind == LeadingRun(line, Whitespace)
    IN  IF /\ ind + 2 <= Len(line)
           /\ line[ind + 1] \in {"-", "*"}
           /\ line[ind + 2] \in Whitespace
        THEN LET rest == SubSeq(line, ind + 2, Len(line))
                 ws   == LeadingRun(rest, Whitespace)
             IN  [matched   |-> TRUE,
                  indent    |-> ind,
                  remainder |-> SubSeq(rest, ws + 1, Len(rest))]
        ELSE NoMatch

\* f"HEADING_{level}"
HeadingStyles ==
    <<"HEADING_1", "HEADING_2", "HEADING_3",
      "HEADING_4", "HEADING_5", "HEADING_6">>

\* ParagraphSpec(...), with the dataclass defaults
ParagraphSpec(text, named_style, bullet, checkbox, indent_level, is_footer, mention_spans) ==
    [text          |-> text,
     named_style   |-> named_style,
     bullet        |-> bullet,
     checkbox      |-> checkbox,
     indent_level  |-> indent_level,
     is_footer     |-> is_footer,
     mention_spans |-> mention_spans]

\* level = min(len(hashes), 3)
HeadingLevel(hashes) == Min(hashes, HeadingMaxLevel)

HeadingParagraph(m) ==
    ParagraphSpec(strip(m.title), HeadingStyles[HeadingLevel(m.hashes)],
                  FALSE, FALSE, 0, FALSE, <<>>)

CheckboxToken == <<"[", " ", "]">>

BulletParagraph(m) ==
    LET checkbox   == startswith(m.remainder, CheckboxToken)
        content    == IF checkbox
                      THEN strip(SubSeq(m.remainder, CheckboxTokenLen + 1,
                                        Len(m.remainder)))
                      ELSE m.remainder
        clean_text == strip(content)
    IN  ParagraphSpec(clean_text, "NORMAL_TEXT", TRUE, checkbox,
                      m.indent \div IndentDivisor, FALSE,
                      extract_mentions(clean_text))

FooterPrefixes ==
    { <<"m", "e", "e", "t", "i", "n", "g", " ",
        "r", "e", "c", "o", "r", "d", "e", "d">>,
      <<"d", "u", "r", "a", "t", "i", "o", "n">> }

PlainParagraph(line) ==
    ParagraphSpec(line, "NORMAL_TEXT", FALSE, FALSE, 0,
                  \E p \in FooterPrefixes : startswith(lower(line), p),
                  extract_mentions(line))

HorizontalRule == <<"-", "-", "-">>

\* the rule test on the line itself rather than on line.strip()
ParseLineExactRule(raw_line) ==
    LET line == rstrip(raw_line)
    IN  IF line = <<>> THEN <<>>
        ELSE IF line = HorizontalRule THEN <<>>
        ELSE IF heading_match(line).matched
        THEN <<HeadingParagraph(heading_match(line))>>
        ELSE IF bullet_match(line).matched
        THEN <<BulletParagraph(bullet_match(line))>>
        ELSE <<PlainParagraph(line)>>

\* one iteration of the loop over the lines: the paragraphs the line adds
ParseLine(raw_line) ==
    LET line == rstrip(raw_line)
    IN  IF line = <<>> THEN <<>>
        ELSE IF strip(line) = HorizontalRule THEN <<>>
        ELSE IF heading_match(line).matched
        THEN <<HeadingParagraph(heading_match(line))>>
        ELSE IF bullet_match(line).matched
        THEN <<BulletParagraph(bullet_match(line))>>
        ELSE <<PlainParagraph(line)>>

RECURSIVE ParseLines(_)
ParseLines(lines) ==
    IF lines = <<>> THEN <<>>
    ELSE ParseLine(Head(lines)) \o ParseLines(Tail(lines))

parse_markdown(text) == ParseLines(splitlines(text))

(***************************************************************************)
(* The request builder.                                                    *)
(***************************************************************************)
Newline == <<"\n">>

\* the insertText request of one paragraph, placed at cursor
InsertTextRequest(cursor0, spec) ==
    [op    |-> "insertText",
     index |-> cursor0,
     text  |-> spec.text \o Newline]

\* the length of the text without the newline the insert appends
TextLengthNoNewline(spec) == Len(spec.text)

\* text_length = len(f"{spec.text}\n")
TextLength(spec) == Len(spec.text \o Newline)

NamedStyleRequest(spec, start, end) ==
    [op             |-> "updateParagraphStyle",
     startIndex     |-> start,
     endIndex       |-> end,
     namedStyleType |-> spec.named_style,
     fields         |-> "namedStyleType"]

IndentRequest(indent, start, end) ==
    [op              |-> "updateParagraphStyle",
     startIndex      |-> start,
     endIndex        |-> end,
     indentStart     |-> [magnitude |-> indent, unit |-> "PT"],
     indentFirstLine |-> [magnitude |-> indent, unit |-> "PT"],
     fields          |-> "indentStart,indentFirstLine"]

BulletPreset(spec) ==
    IF spec.checkbox THEN "BULLET_CHECKBOX" ELSE "BULLET_DISC_CIRCLE_SQUARE"

BulletRequest(spec, start, end) ==
    [op           |-> "createParagraphBullets",
     startIndex   |-> start,
     endIndex     |-> end,
     bulletPreset |-> BulletPreset(spec)]

FooterRequest(spec, start) ==
    [op              |-> "updateTextStyle",
     startIndex      |-> start,
     endIndex        |-> start + Len(spec.text),
     italic          |-> TRUE,
     foregroundColor |-> [red |-> "0.4", green |-> "0.4", blue |-> "0.4"],
     fields          |-> "italic,foregroundColor"]

\* the span's offsets within the text, not shifted to the paragraph's start
MentionRequestUnshifted(span, start) ==
    [op              |-> "updateTextStyle",
     startIndex      |-> span[1],
     endIndex        |-> span[2],
     bold            |-> TRUE,
     foregroundColor |-> [red |-> "0.15", green |-> "0.15", blue |-> "0.6"],
     fields          |-> "bold,foregroundColor"]

MentionRequest(span, start) ==
    [op              |-> "updateTextStyle",
     startIndex      |-> start + span[1],
     endIndex        |-> start + span[2],
     bold            |-> TRUE,
     foregroundColor |-> [red |-> "0.15", green |-> "0.15", blue |-> "0.6"],
     fields          |-> "bold,foregroundColor"]

\* the bullet creation ahead of the indent update
BulletRequestsBulletFirst(spec, start, end) ==
    LET indent == spec.indent_level * INDENT_WIDTH_PT
    IN  <<BulletRequest(spec, start, end)>>
        \o (IF indent # 0 THEN <<IndentRequest(indent, start, end)>> ELSE <<>>)

\* if spec.bullet: the optional indent update, then the bullet creation
BulletRequests(spec, start, end) ==
    LET indent == spec.indent_level * INDENT_WIDTH_PT
    IN  (IF indent # 0 THEN <<IndentRequest(indent, start, end)>> ELSE <<>>)
        \o <<BulletRequest(spec, start, end)>>

\* for span_start, span_end in spec.mention_spans
MentionRequests(spec, start) ==
    [i \in 1..Len(spec.mention_spans) |->
        MentionRequest(spec.mention_spans[i], start)]

\* one iteration of the second loop: the requests one paragraph adds
StyleRequests(spec, start, end) ==
    (IF spec.named_style # "NORMAL_TEXT"
     THEN <<NamedStyleRequest(spec, start, end)>> ELSE <<>>)
    \o (IF spec.bullet THEN BulletRequests(spec, start, end) ELSE <<>>)
    \o (IF spec.is_footer THEN <<FooterRequest(spec, start)>> ELSE <<>>)
    \o MentionRequests(spec, start)

\* the second loop: for spec, (start, end) in zip(paragraphs, paragraph_ranges)
RECURSIVE StyleLoop(_, _)
StyleLoop(specs, ranges) ==
    IF specs = <<>> \/ ranges = <<>> THEN <<>>
    ELSE StyleRequests(Head(specs), Head(ranges)[1], Head(ranges)[2])
         \o StyleLoop(Tail(specs), Tail(ranges))

\* a run that starts from what the previous run left in the locals
PopulateLocalsStale ==
    [requests |-> requests, cursor |-> cursor, paragraph_ranges |-> <<>>]

\* requests = [], cursor = 1, paragraph_ranges = []
PopulateLocals ==
    [requests |-> <<>>, cursor |-> 1, paragraph_ranges |-> <<>>]

\* a single loop that styles each paragraph right after inserting it
InsertStepStyled(locals, spec) ==
    [requests         |-> Append(locals.requests,
                                 InsertTextRequest(locals.cursor, spec))
                          \o StyleRequests(spec, locals.cursor,
                                           locals.cursor + TextLength(spec)),
     paragraph_ranges |-> Append(locals.paragraph_ranges,
                                 <<locals.cursor,
                                   locals.cursor + TextLength(spec)>>),
     cursor           |-> locals.cursor + TextLength(spec)]

\* one iteration of the first loop, on the locals
InsertStep(locals, spec) ==
    [requests         |-> Append(locals.requests,
                                 InsertTextRequest(locals.cursor, spec)),
     paragraph_ranges |-> Append(locals.paragraph_ranges,
                                 <<locals.cursor,
                                   locals.cursor + TextLength(spec)>>),
     cursor           |-> locals.cursor + TextLength(spec)]

\* the first loop: for spec in paragraphs
RECURSIVE InsertLoop(_, _)
InsertLoop(locals, specs) ==
    IF specs = <<>> THEN locals
    ELSE InsertLoop(InsertStep(locals, Head(specs)), Tail(specs))

(***************************************************************************)
(* The remote document service and the exceptions its client raises.       *)
(***************************************************************************)
DocIds == {"doc1", "doc2"}

DefaultTitle == "Product Team Sync - Converted Notes"

\* how .execute() can end: it returns, it raises HttpError, or it raises an
\* exception of a class that does not derive from HttpError (a transport
\* failure, a timeout)
Outcomes == {"ok", "HttpError", "TransportError"}

NoError == [type |-> "none", message |-> "", cause |-> "none"]

Raised(type) == [type |-> type, message |-> "", cause |-> "none"]

Absent == [exists |-> FALSE, title |-> "", content |-> <<>>]

\* raise RuntimeError(message) without "from exc"
ExceptHttpErrorNoCause(exc, message) ==
    IF exc.type = "HttpError"
    THEN [type |-> "RuntimeError", message |-> message, cause |-> "none"]
    ELSE exc

\* try: ... except HttpError as exc: raise RuntimeError(message) from exc
\* An exception of another class is not caught and propagates as it is.
ExceptHttpError(exc, message) ==
    IF exc.type = "HttpError"
    THEN [type |-> "RuntimeError", message |-> message, cause |-> exc.type]
    ELSE exc

(***************************************************************************)
(* Inputs.                                                                 *)
(***************************************************************************)
ShortAlphabet == {"#", "-", " ", "\t", "@", "a", "\n", "\r"}

SeqsUpTo(S, n) == UNION {[1..k -> S] : k \in 0..n}

ShortTexts == SeqsUpTo(ShortAlphabet, MaxLen)

Repeat(c, n) == [i \in 1..n |-> c]

Markers ==
    {<<>>, <<"-">>, <<"*">>, <<"-", "-", "-">>}
    \cup {Repeat("#", n) : n \in 1..MaxHashes}

Contents ==
    { <<>>,
      <<"D", "e", "e", "p">>,
      <<"@", "a">>,
      <<"a", "@", "b", " ", "c">>,
      <<"@", "@", "a", "_", "1", " ", "@">>,
      <<"[", " ", "]">>,
      <<"[", " ", "]", " ", "d", "o", " ", "@", "a", "l">>,
      <<"[", " ", "]", "x">>,
      <<"D", "u", "r", "a", "t", "i", "o", "n", " ", "5">>,
      <<"M", "E", "E", "T", "I", "N", "G", " ", "r", "e", "c", "o", "r",
        "d", "e", "d", " ", "@", "b", "o">>,
      <<"x", " ", "@", "a", ",", " ", "@", "b", "!">> }

StructuredLines ==
    { Repeat(" ", lead) \o marker \o Repeat(" ", gap) \o content :
        lead \in 0..MaxLead, marker \in Markers,
        gap \in 0..MaxGap, content \in Contents }

SampleDocs ==
    { <<"#", " ", "T", "\n", "-", " ", "[", " ", "]", " ", "d", "o", " ",
        "@", "a", "l", "\r", "\n", "\r", "\n", "-", "-", "-", "\n",
        "D", "u", "r", "a", "t", "i", "o", "n", " ", "5">>,
      <<" ", " ", "*", " ", "a", " ", "@", "b", "\n", "\t", "-", " ", "c",
        "\n", "#", "#", " ", "H", " ", "@", "x", "\n">>,
      <<"x", "\n", " ", "-", "-", "-", " ", " ", "\n", "\n", "-", " ", "[",
        " ", "]", "\n", "#", "a">>,
      <<"@", "a", " ", "@", "b", "\r", "d", "u", "r", "a", "t", "i", "o",
        "n", "@", "c", "\t", "\n", "#", "\t", "x", " ", "@", "d", " ">> }

MarkdownTexts == ShortTexts \cup StructuredLines \cup SampleDocs

\* paragraphs handed directly to populate_document: every combination of the
\* fields the builder reads
TextsWithSpans ==
    { [text |-> <<>>, mention_spans |-> <<>>],
      [text |-> <<"@", "a">>, mention_spans |-> <<>>],
      [text |-> <<"@", "a">>, mention_spans |-> <<(<<0, 2>>)>>],
      [text |-> <<"a", " ", "@", "b", " ", "@", "c">>,
       mention_spans |-> <<(<<2, 4>>), (<<5, 7>>)>>] }

AnyParagraphs ==
    { ParagraphSpec(t.text, style, bullet, checkbox, level, footer,
                    t.mention_spans) :
        t \in TextsWithSpans,
        style \in {"NORMAL_TEXT", "HEADING_1", "HEADING_2", "HEADING_3"},
        bullet \in BOOLEAN, checkbox \in BOOLEAN,
        level \in 0..MaxIndentLevel, footer \in BOOLEAN }

\* the paragraphs that surround the freely chosen one
NeighbourParagraphs ==
    { ParagraphSpec(<<"a">>, "HEADING_1", FALSE, FALSE, 0, FALSE, <<>>),
      ParagraphSpec(<<"@", "a">>, "NORMAL_TEXT", TRUE, TRUE, 1, FALSE,
                    <<(<<0, 2>>)>>),
      ParagraphSpec(<<>>, "NORMAL_TEXT", FALSE, FALSE, 0, TRUE, <<>>) }

\* the sequences of at most MaxParas paragraphs with any paragraph at one
\* position and neighbour paragraphs at the others
ParagraphSeqs ==
    {<<>>} \cup
    UNION { { [i \in 1..n |-> IF i = k THEN p ELSE others[i]] :
                p \in AnyParagraphs, others \in [1..n -> NeighbourParagraphs] } :
            n \in 1..MaxParas, k \in 1..MaxParas }

NoLocals ==
    /\ requests = <<>>
    /\ cursor = 1
    /\ paragraph_ranges = <<>>

\* convert_notes_to_doc(docs_service, markdown_text) is called on a service
\* that holds no document yet
Init ==
    /\ markdown_text \in MarkdownTexts
    /\ paragraphs = <<>>
    /\ pc = "parse"
    /\ document_id = "none"
    /\ NoLocals
    /\ remote = [d \in DocIds |-> Absent]
    /\ calls = <<>>
    /\ error = NoError
    /\ returned = "none"

\* populate_document(document_id, paragraphs) is called on a fresh document
InitPopulate ==
    /\ markdown_text = <<>>
    /\ paragraphs \in ParagraphSeqs
    /\ pc = "populate"
    /\ document_id \in DocIds
    /\ NoLocals
    /\ remote = [d \in DocIds |->
                    [exists |-> TRUE, title |-> DefaultTitle, content |-> <<>>]]
    /\ calls = <<>>
    /\ error = NoError
    /\ returned = "none"

(***************************************************************************)
(* Operations.                                                             *)
(***************************************************************************)
\* paragraphs = parse_markdown(markdown_text)
ParseMarkdown ==
    /\ pc = "parse"
    /\ paragraphs' = parse_markdown(markdown_text)
    /\ pc' = "create"
    /\ UNCHANGED <<markdown_text, document_id, requests, cursor,
                   paragraph_ranges, remote, calls, error, returned>>

\* document_id = converter.create_document(title=title).  An exception that
\* leaves create_document leaves convert_notes_to_doc too: it has no handler.
CreateDocument ==
    /\ pc = "create"
    /\ \E outcome \in Outcomes :
          /\ calls' = Append(calls, [method  |-> "create",
                                     title   |-> DefaultTitle,
                                     outcome |-> outcome])
          /\ IF outcome = "ok"
             THEN \E id \in {d \in DocIds : ~remote[d].exists} :
                     /\ remote' = [remote EXCEPT ![id] =
                                      [exists  |-> TRUE,
                                       title   |-> DefaultTitle,
                                       content |-> <<>>]]
                     /\ document_id' = id
                     /\ error' = NoError
                     /\ pc' = "populate"
             ELSE /\ error' = ExceptHttpError(Raised(outcome),
                                              "Failed to create document")
                  /\ pc' = "done"
                  /\ UNCHANGED <<remote, document_id>>
    /\ UNCHANGED <<markdown_text, paragraphs, requests, cursor,
                   paragraph_ranges, returned>>

\* populate_document, the first loop, from fresh locals
InsertionPass ==
    /\ pc = "populate"
    /\ LET locals == InsertLoop(PopulateLocals, paragraphs)
       IN  /\ requests' = locals.requests
           /\ cursor' = locals.cursor
           /\ paragraph_ranges' = locals.paragraph_ranges
    /\ pc' = "style"
    /\ UNCHANGED <<markdown_text, paragraphs, document_id, remote, calls,
                   error, returned>>

\* populate_document, the second loop
StylingPass ==
    /\ pc = "style"
    /\ requests' = requests \o StyleLoop(paragraphs, paragraph_ranges)
    /\ pc' = "submit"
    /\ UNCHANGED <<markdown_text, paragraphs, document_id, cursor,
                   paragraph_ranges, remote, calls, error, returned>>

\* populate_document, the batchUpdate call and its handler.  The service
\* applies a batch as a whole or not at all.
BatchUpdate ==
    /\ pc = "submit"
    /\ \E outcome \in Outcomes :
          /\ calls' = Append(calls, [method     |-> "batchUpdate",
                                     documentId |-> document_id,
                                     requests   |-> requests,
                                     outcome    |-> outcome])
          /\ IF outcome = "ok"
             THEN /\ remote' = [remote EXCEPT ![document_id].content = requests]
                  /\ error' = NoError
             ELSE /\ error' = ExceptHttpError(Raised(outcome),
                                              "Failed to update document")
                  /\ UNCHANGED remote
    /\ pc' = "populated"
    /\ UNCHANGED <<markdown_text, paragraphs, document_id, requests, cursor,
                   paragraph_ranges, returned>>

\* return document_id whether or not populate_document raised
ConvertReturnAlways ==
    /\ pc = "populated"
    /\ returned' = document_id
    /\ pc' = "done"
    /\ UNCHANGED <<markdown_text, paragraphs, document_id, requests, cursor,
                   paragraph_ranges, remote, calls, error>>

\* convert_notes_to_doc after populate_document: return document_id, unless
\* populate_document raised, and then the exception leaves the call
ConvertReturn ==
    /\ pc = "populated"
    /\ returned' = IF error.type = "none" THEN document_id ELSE "none"
    /\ pc' = "done"
    /\ UNCHANGED <<markdown_text, paragraphs, document_id, requests, cursor,
                   paragraph_ranges, remote, calls, error>>

\* a caller of populate_document runs it again, on the same paragraphs,
\* against a fresh document
PopulateAgain ==
    /\ pc = "populated"
    /\ \E d \in DocIds :
          /\ \A i \in 1..Len(calls) : calls[i].documentId # d
          /\ document_id' = d
    /\ error' = NoError
    /\ pc' = "populate"
    /\ UNCHANGED <<markdown_text, paragraphs, requests, cursor,
                   paragraph_ranges, remote, calls, returned>>

\* parse_markdown alone
NextParse == ParseMarkdown

SpecParse == Init /\ [][NextParse]_vars

\* convert_notes_to_doc
Next ==
    \/ ParseMarkdown
    \/ CreateDocument
    \/ InsertionPass
    \/ StylingPass
    \/ BatchUpdate
    \/ ConvertReturn

Spec == Init /\ [][Next]_vars

\* populate_document, run twice
NextPopulate ==
    \/ InsertionPass
    \/ StylingPass
    \/ BatchUpdate
    \/ PopulateAgain

SpecPopulate == InitPopulate /\ [][NextPopulate]_vars

(***************************************************************************)
(* Properties of populate_document, checked under SpecPopulate.            *)
(***************************************************************************)
\* the sum of (len(text) + 1) over the paragraphs
RECURSIVE SumLengths(_)
SumLengths(specs) ==
    IF specs = <<>> THEN 0
    ELSE Len(Head(specs).text) + 1 + SumLengths(Tail(specs))

\* where the i-th paragraph starts and ends in the document, from the texts
ParagraphStart(i) == 1 + SumLengths(SubSeq(paragraphs, 1, i - 1))

ParagraphEnd(i) == ParagraphStart(i) + Len(paragraphs[i].text) + 1

\* the batches submitted so far
Batches == {i \in 1..Len(calls) : calls[i].method = "batchUpdate"}

\* populate_document has run its first loop
AfterInsertion ==
    \/ pc \in {"style", "submit", "populated"}
    \/ pc = "done" /\ Batches # {}

\* populate_document has run both loops
AfterStyling ==
    \/ pc \in {"submit", "populated"}
    \/ pc = "done" /\ Batches # {}

\* C1: after the insertion pass the recorded ranges are contiguous and
\* non-overlapping: the first starts at 1, each is [start, start + len(text)
\* + 1), each next one starts where the previous one ended, and the cursor
\* is 1 + the sum of (len(text) + 1) over all paragraphs.
C1_RangesContiguous ==
    AfterInsertion =>
        /\ Len(paragraph_ranges) = Len(paragraphs)
        /\ \A i \in 1..Len(paragraphs) :
              /\ paragraph_ranges[i][1] =
                    (IF i = 1 THEN 1 ELSE paragraph_ranges[i - 1][2])
              /\ paragraph_ranges[i][2] =
                    paragraph_ranges[i][1] + Len(paragraphs[i].text) + 1
              /\ paragraph_ranges[i][1] < paragraph_ranges[i][2]
        /\ cursor = 1 + SumLengths(paragraphs)

\* two paragraphs of different lengths have been laid out
C1_Witness ==
    /\ pc = "style"
    /\ Len(paragraphs) >= 2
    /\ Len(paragraphs[1].text) > 0
    /\ Len(paragraphs[2].text) # Len(paragraphs[1].text)
    /\ paragraph_ranges[2][1] > 2
    /\ cursor = paragraph_ranges[Len(paragraphs)][2]

\* C2: the batch holds exactly one insertText per paragraph, in paragraph
\* order, each at its paragraph's cursor position and carrying text + "\n";
\* these inserts come first and no insertText follows a styling request.
C2_InsertsPrecedeStyling ==
    AfterInsertion =>
        /\ Len(requests) >= Len(paragraphs)
        /\ pc = "style" => Len(requests) = Len(paragraphs)
        /\ \A i \in 1..Len(paragraphs) :
              /\ requests[i].op = "insertText"
              /\ requests[i].index = ParagraphStart(i)
              /\ requests[i].text = paragraphs[i].text \o <<"\n">>
        /\ \A j \in (Len(paragraphs) + 1)..Len(requests) :
              requests[j].op # "insertText"

\* a batch of two inserts followed by styling requests of both paragraphs
C2_Witness ==
    /\ pc = "submit"
    /\ Len(paragraphs) = 2
    /\ paragraphs[1].bullet
    /\ paragraphs[2].named_style # "NORMAL_TEXT"
    /\ Len(requests) > 3
    /\ requests[2].op = "insertText"
    /\ requests[3].op # "insertText"

\* the styling requests the claim C4 lists for one paragraph laid out at
\* [start, end), in the claim's order
C4_NamedStyle(spec, start, end) ==
    IF spec.named_style # "NORMAL_TEXT"
    THEN << [op |-> "updateParagraphStyle", startIndex |-> start,
             endIndex |-> end, namedStyleType |-> spec.named_style,
             fields |-> "namedStyleType"] >>
    ELSE <<>>

C4_Indent(spec, start, end) ==
    IF spec.bullet /\ spec.indent_level > 0
    THEN << [op |-> "updateParagraphStyle", startIndex |-> start,
             endIndex |-> end,
             indentStart |-> [magnitude |-> spec.indent_level * 18,
                              unit |-> "PT"],
             indentFirstLine |-> [magnitude |-> spec.indent_level * 18,
                                  unit |-> "PT"],
             fields |-> "indentStart,indentFirstLine"] >>
    ELSE <<>>

C4_Bullet(spec, start, end) ==
    IF spec.bullet
    THEN << [op |-> "createParagraphBullets", startIndex |-> start,
             endIndex |-> end,
             bulletPreset |-> IF spec.checkbox THEN "BULLET_CHECKBOX"
                              ELSE "BULLET_DISC_CIRCLE_SQUARE"] >>
    ELSE <<>>

C4_Footer(spec, start) ==
    IF spec.is_footer
    THEN << [op |-> "updateTextStyle", startIndex |-> start,
             endIndex |-> start + Len(spec.text), italic |-> TRUE,
             foregroundColor |-> [red |-> "0.4", green |-> "0.4",
                                  blue |-> "0.4"],
             fields |-> "italic,foregroundColor"] >>
    ELSE <<>>

C4_Mentions(spec, start) ==
    [k \in 1..Len(spec.mention_spans) |->
        [op |-> "updateTextStyle",
         startIndex |-> start + spec.mention_spans[k][1],
         endIndex |-> start + spec.mention_spans[k][2], bold |-> TRUE,
         foregroundColor |-> [red |-> "0.15", green |-> "0.15",
                              blue |-> "0.6"],
         fields |-> "bold,foregroundColor"]]

C4_Paragraph(spec, start, end) ==
    C4_NamedStyle(spec, start, end) \o C4_Indent(spec, start, end)
    \o C4_Bullet(spec, start, end) \o C4_Footer(spec, start)
    \o C4_Mentions(spec, start)

RECURSIVE C4_From(_)
C4_From(i) ==
    IF i > Len(paragraphs) THEN <<>>
    ELSE C4_Paragraph(paragraphs[i], ParagraphStart(i), ParagraphEnd(i))
         \o C4_From(i + 1)

\* C4: the requests after the inserts are, paragraph by paragraph in input
\* order, exactly: the named-style update iff named_style is not
\* NORMAL_TEXT; iff bullet, the indent update (indent_level x 18 PT) iff
\* indent_level > 0 and then the bullet creation with the preset checkbox
\* selects; the footer text style over [start, start + len(text)) iff
\* is_footer; one mention text style per span, in span order.  Nothing else.
C4_StylingOrder ==
    AfterStyling =>
        SubSeq(requests, Len(paragraphs) + 1, Len(requests)) = C4_From(1)

\* a paragraph that takes every branch, followed by another styled one
C4_Witness ==
    /\ pc = "submit"
    /\ Len(paragraphs) = 2
    /\ paragraphs[1].named_style # "NORMAL_TEXT"
    /\ paragraphs[1].bullet
    /\ paragraphs[1].checkbox
    /\ paragraphs[1].indent_level > 0
    /\ paragraphs[1].is_footer
    /\ Len(paragraphs[1].mention_spans) = 2
    /\ Len(requests) = 2 + 6 + Len(C4_Paragraph(paragraphs[2], 0, 0))
    /\ Len(requests) > 8

\* the batches of two runs on different documents carry the same requests
SameBatches ==
    \A i, j \in Batches :
        calls[i].documentId # calls[j].documentId =>
            calls[i].requests = calls[j].requests

\* C9: two runs of populate_document on the same paragraphs against two
\* different fresh documents submit identical request sequences, whatever
\* the document id and whatever the first run left behind, and no step of a
\* run changes the paragraph sequence.
C9_RunsIdentical ==
    /\ []SameBatches
    /\ [][paragraphs' = paragraphs]_vars

\* both runs have submitted a batch of inserts and styling requests
C9_Witness ==
    /\ pc = "populated"
    /\ Len(calls) = 2
    /\ calls[1].documentId # calls[2].documentId
    /\ calls[1].outcome = "ok"
    /\ Len(paragraphs) = 2
    /\ Len(calls[2].requests) > 3

(***************************************************************************)
(* Properties of convert_notes_to_doc, checked under Spec.                 *)
(***************************************************************************)
Creates == {i \in 1..Len(calls) : calls[i].method = "create"}

CreateFailed == Len(calls) >= 1 /\ calls[1].outcome # "ok"

BatchFailed == Len(calls) >= 2 /\ calls[2].outcome # "ok"

BothSucceeded ==
    Len(calls) = 2 /\ calls[1].outcome = "ok" /\ calls[2].outcome = "ok"

\* C3: create is called at most once and batchUpdate at most once, create
\* first and with no retry.  A failed create is followed by no batchUpdate
\* and no document id is returned; a failed batchUpdate leaves the created
\* document without content, an error leaves the call and no document id is
\* returned; the document id is returned only when both succeeded, and then
\* it is returned.
C3_CreateThenBatchOnce ==
    /\ Cardinality(Creates) <= 1
    /\ Cardinality(Batches) <= 1
    /\ \A j \in Batches :
          j = 2 /\ calls[1].method = "create" /\ calls[1].outcome = "ok"
    /\ CreateFailed =>
          /\ Len(calls) = 1
          /\ pc = "done"
          /\ error.type # "none"
          /\ returned = "none"
    /\ BatchFailed =>
          /\ remote[document_id].exists
          /\ remote[document_id].content = <<>>
          /\ error.type # "none"
          /\ returned = "none"
    /\ returned # "none" =>
          /\ BothSucceeded
          /\ returned = document_id
          /\ calls[2].documentId = returned
    /\ (pc = "done" /\ BothSucceeded) => returned = document_id

\* the batch of a non-empty document failed and the call has ended
C3_Witness ==
    /\ pc = "done"
    /\ BatchFailed
    /\ Len(calls[2].requests) > 1
    /\ remote[document_id].exists

LastCall == calls[Len(calls)]

CallFailed == Len(calls) >= 1 /\ LastCall.outcome # "ok"

OperationMessage(method) ==
    IF method = "create" THEN "Failed to create document"
    ELSE "Failed to update document"

\* C8 as claimed: whatever the kind of the remote failure, the caller gets a
\* wrapped error that names the failed operation and carries the original
\* failure as its cause.
C8_EveryFailureWrapped ==
    CallFailed =>
        /\ error.type = "RuntimeError"
        /\ error.message = OperationMessage(LastCall.method)
        /\ error.cause = LastCall.outcome

\* C8 as amended: a remote failure raised as HttpError reaches the caller as
\* one RuntimeError that names the failed operation and has the HttpError as
\* its cause; a failure of any other class reaches the caller as it was
\* raised, unwrapped; without a failure there is no error.
C8_HttpErrorWrapped ==
    IF CallFailed
    THEN IF LastCall.outcome = "HttpError"
         THEN /\ error.type = "RuntimeError"
              /\ error.message = OperationMessage(LastCall.method)
              /\ error.cause = "HttpError"
         ELSE /\ error.type = LastCall.outcome
              /\ error.cause = "none"
    ELSE error.type = "none"

\* the batch update failed with an HttpError and the call has ended
C8_Witness ==
    /\ pc = "done"
    /\ Len(calls) = 2
    /\ LastCall.method = "batchUpdate"
    /\ LastCall.outcome = "HttpError"
    /\ error.type = "RuntimeError"

\* the number of styling requests of one paragraph
C10_Count(spec) ==
    (IF spec.named_style # "NORMAL_TEXT" THEN 1 ELSE 0)
    + (IF spec.bullet THEN 1 ELSE 0)
    + (IF spec.bullet /\ spec.indent_level > 0 THEN 1 ELSE 0)
    + (IF spec.is_footer THEN 1 ELSE 0)
    + Len(spec.mention_spans)

\* the position in the batch before the styling requests of paragraph i
RECURSIVE C10_Offset(_)
C10_Offset(i) ==
    IF i = 1 THEN Len(paragraphs)
    ELSE C10_Offset(i - 1) + C10_Count(paragraphs[i - 1])

\* C10: for paragraphs that parse_markdown produced, every styling request
\* lies inside the range of the paragraph it was emitted for, hence inside
\* [1, final cursor): a paragraph-style or bullet request covers exactly
\* [start, end), and a text-style request has a non-empty range inside
\* [start, start + len(text)).
C10_StylingInsideParagraph ==
    AfterStyling =>
        /\ Len(requests) = C10_Offset(Len(paragraphs) + 1)
        /\ \A i \in 1..Len(paragraphs) :
              \A j \in (C10_Offset(i) + 1)..C10_Offset(i + 1) :
                 /\ 1 <= ParagraphStart(i)
                 /\ ParagraphEnd(i) <= cursor
                 /\ requests[j].op \in {"updateParagraphStyle",
                                        "createParagraphBullets",
                                        "updateTextStyle"}
                 /\ requests[j].op # "updateTextStyle" =>
                       /\ requests[j].startIndex = ParagraphStart(i)
                       /\ requests[j].endIndex = ParagraphEnd(i)
                 /\ requests[j].op = "updateTextStyle" =>
                       /\ ParagraphStart(i) <= requests[j].startIndex
                       /\ requests[j].startIndex < requests[j].endIndex
                       /\ requests[j].endIndex
                             <= ParagraphStart(i) + Len(paragraphs[i].text)

\* a second paragraph that is a footer holding a mention has been styled
C10_Witness ==
    /\ pc = "submit"
    /\ Len(paragraphs) >= 2
    /\ paragraphs[2].is_footer
    /\ Len(paragraphs[2].mention_spans) >= 1
    /\ Len(paragraphs[1].mention_spans) >= 1
    /\ Len(requests) > Len(paragraphs) + 3

(***************************************************************************)
(* Properties of parse_markdown, checked under SpecParse.                  *)
(***************************************************************************)
Parsed == pc # "parse"

\* the maximal runs of '@' followed by one or more word characters, as
\* (start, end) offsets
MentionRuns(text) ==
    { span \in (0..Len(text)) \X (0..Len(text)) :
        /\ span[1] + 2 <= span[2]
        /\ text[span[1] + 1] = "@"
        /\ \A k \in (span[1] + 2)..span[2] : text[k] \in WordChars
        /\ span[2] = Len(text) \/ text[span[2] + 1] \notin WordChars }

\* C5: the mention_spans of a paragraph made from a bullet or plain line are
\* exactly the maximal runs of '@' and word characters of its text, left to
\* right and non-overlapping, each with 0 <= s < e <= len(text) and
\* text[s] = '@'; a paragraph made from a heading line has none, even when
\* its title holds such a run.
C5_MentionSpans ==
    Parsed =>
        \A i \in 1..Len(paragraphs) :
            LET text  == paragraphs[i].text
                spans == paragraphs[i].mention_spans
            IN  IF paragraphs[i].named_style = "NORMAL_TEXT"
                THEN /\ Range(spans) = MentionRuns(text)
                     /\ \A k \in 1..Len(spans) :
                           /\ 0 <= spans[k][1]
                           /\ spans[k][1] < spans[k][2]
                           /\ spans[k][2] <= Len(text)
                           /\ text[spans[k][1] + 1] = "@"
                     /\ \A k \in 1..(Len(spans) - 1) :
                           spans[k][2] <= spans[k + 1][1]
                ELSE spans = <<>>

\* a plain or bullet paragraph with two mentions, and a heading whose title
\* holds a mention
C5_Witness ==
    /\ Parsed
    /\ \E i \in 1..Len(paragraphs) :
          /\ paragraphs[i].named_style = "NORMAL_TEXT"
          /\ Len(paragraphs[i].mention_spans) = 2
    /\ \E i \in 1..Len(paragraphs) :
          /\ paragraphs[i].named_style # "NORMAL_TEXT"
          /\ MentionRuns(paragraphs[i].text) # {}

\* the text is a single line of exactly h leading '#', whitespace and a title
HashLine(h) ==
    /\ \A k \in 1..Len(markdown_text) : markdown_text[k] \notin LineBreaks
    /\ LeadingRun(markdown_text, {"#"}) = h
    /\ h < Len(markdown_text)
    /\ markdown_text[h + 1] \in Whitespace
    /\ \E k \in (h + 2)..Len(markdown_text) :
          markdown_text[k] \notin Whitespace

\* the title of such a line: what follows the '#', without the whitespace
\* around it
HashLineTitle(h) ==
    LET rest  == SubSeq(markdown_text, h + 1, Len(markdown_text))
        first == SetMin({k \in 1..Len(rest) : rest[k] \notin Whitespace})
        last  == SetMax({k \in 1..Len(rest) : rest[k] \notin Whitespace})
    IN  SubSeq(rest, first, last)

\* the text without its trailing whitespace
LineWithoutTrailingSpace ==
    SubSeq(markdown_text, 1,
           SetMax({k \in 1..Len(markdown_text) :
                      markdown_text[k] \notin Whitespace}))

\* C6 as claimed: a line of more than three leading '#', whitespace and a
\* title is one paragraph of named_style HEADING_3.
C6_DeepHeadingClamped ==
    (Parsed /\ \E h \in 4..Len(markdown_text) : HashLine(h)) =>
        /\ Len(paragraphs) = 1
        /\ paragraphs[1].named_style = "HEADING_3"

\* C6 as amended: a line of four to six leading '#', whitespace and a title
\* is one paragraph of named_style HEADING_3 whose text is the title; a line
\* of seven or more '#' is no heading: it is one plain NORMAL_TEXT paragraph
\* whose text is the whole line.
C6_HeadingClampedToSix ==
    Parsed =>
        \A h \in 4..Len(markdown_text) :
            HashLine(h) =>
                /\ Len(paragraphs) = 1
                /\ ~paragraphs[1].bullet
                /\ IF h <= 6
                   THEN /\ paragraphs[1].named_style = "HEADING_3"
                        /\ paragraphs[1].text = HashLineTitle(h)
                   ELSE /\ paragraphs[1].named_style = "NORMAL_TEXT"
                        /\ paragraphs[1].text = LineWithoutTrailingSpace

\* "####### Deep" has been parsed
C6_Witness ==
    /\ Parsed
    /\ markdown_text = <<"#", "#", "#", "#", "#", "#", "#", " ",
                         "D", "e", "e", "p">>
    /\ Len(paragraphs) = 1

IsBlankLine(line) == \A k \in 1..Len(line) : line[k] \in Whitespace

IsRuleLine(line) ==
    \E k \in 1..(Len(line) - 2) :
        /\ SubSeq(line, k, k + 2) = <<"-", "-", "-">>
        /\ \A m \in 1..Len(line) :
              (m < k \/ m > k + 2) => line[m] \in Whitespace

KeepsLine(line) == ~IsBlankLine(line) /\ ~IsRuleLine(line)

IsSubstring(t, line) ==
    \E k \in 0..(Len(line) - Len(t)) : SubSeq(line, k + 1, k + Len(t)) = t

\* C7: parse_markdown drops exactly the lines that are empty or whitespace
\* only and the lines whose trimmed content is '---'; every other line makes
\* exactly one paragraph, in input order (each paragraph's text is taken from
\* its own line); the empty text gives the empty sequence.
C7_DropsBlankAndRuleLines ==
    Parsed =>
        LET kept == SelectSeq(splitlines(markdown_text), KeepsLine)
        IN  /\ Len(paragraphs) = Len(kept)
            /\ \A i \in 1..Len(kept) :
                  IsSubstring(paragraphs[i].text, kept[i])
            /\ markdown_text = <<>> => paragraphs = <<>>

\* a text with a blank line, an indented rule line and three other lines
C7_Witness ==
    /\ Parsed
    /\ Len(paragraphs) = 3
    /\ \E i \in 1..Len(splitlines(markdown_text)) :
          splitlines(markdown_text)[i] = <<>>
    /\ \E i \in 1..Len(splitlines(markdown_text)) :
          /\ IsRuleLine(splitlines(markdown_text)[i])
          /\ Len(splitlines(markdown_text)[i]) > 3
    /\ paragraphs[1].text # paragraphs[3].text

=============================================================================
